---- MODULE Spec2Model ----
(***************************************************************************)
(* A model of the SdkCollection of package ziti (collection.go) and of the *)
(* configuration loader it uses (config.go).                               *)
(*                                                                         *)
(* The collection keeps its contexts in a concurrent map                   *)
(* (cmap.ConcurrentMap): every call on that map (Upsert, Set, Remove)      *)
(* runs under the lock of the key's shard and is one atomic step; a method *)
(* of SdkCollection that makes two calls on the map is two steps, and the  *)
(* steps of other goroutines may come in between.                          *)
(***************************************************************************)
EXTENDS Integers, Sequences, FiniteSets, TLC

(***************************************************************************)
(* Bounds of the model.                                                    *)
(***************************************************************************)
NHandles == 4      \* Context instances that exist
NWorkers == 2      \* goroutines that call the collection freely
NRacers == 3       \* goroutines of the race: one Add each
MaxClose == 2      \* Close calls counted per Context
MaxTypes == 2      \* length of a ConfigTypes slice
MaxEnvLen == 7     \* characters of the environment value
MaxStrLen == 1     \* bytes of a string of a Config

Max(a, b) == IF a >= b THEN a ELSE b

\* The nil Context (and the nil *Config of a call that has no caller's cfg).
Nil == 0

Handles == 1..NHandles
Workers == 1..NWorkers
Racers == 1..NRacers
Threads == 1..Max(NWorkers, NRacers)
Cfgs == {1}

\* ctx.GetId(): the identity of a Context. All instances but the last share
\* the identity "a"; the last has the identity "b".
GetId(h) == IF h < NHandles THEN "a" ELSE "b"
Ids == {"a", "b"}

VARIABLES
    contexts,        \* set.contexts: identity -> Context, Nil when the key is absent
    closed,          \* per Context, the number of Close calls made on it
    setConfigTypes,  \* set.ConfigTypes
    cfgTypes,        \* per caller's *Config, its ConfigTypes
    pc,              \* per goroutine, its position in the method it runs
    arg,             \* per goroutine, the Context (or *Config) of its current call
    ret,             \* per goroutine, what its last call returned
    last,            \* the single-threaded driver's record of its current call
    envValue,        \* NewSdkCollectionFromEnv: os.Getenv(envVariable)
    identityFiles,   \* NewSdkCollectionFromEnv: strings.Split(envValue, ";")
    idx,             \* NewSdkCollectionFromEnv: position of the range loop
    logged,          \* the Errorf calls made on the logger, in order
    reads,           \* the files handed to NewConfigFromFile, in order
    made,            \* per loop iteration done, what it produced
    rlock,           \* per shard of the map, the goroutines holding its read lock
    wlock,           \* per shard of the map, the goroutine holding its write lock
    iter,            \* per goroutine, its ForAll: shard, keys to visit, visits made
    kept,            \* the observer's record of the ForAll of Main
    disk,            \* the bytes of the configuration file "c"
    loaded,          \* what the last NewConfigFromFile("c") returned
    orig             \* the Config that was serialized into the file "c"

vars == <<contexts, closed, setConfigTypes, cfgTypes, pc, arg, ret, last,
          envValue, identityFiles, idx, logged, reads, made,
          rlock, wlock, iter, kept, disk, loaded, orig>>

envVars == <<envValue, identityFiles, idx, logged, reads, made>>

lockVars == <<rlock, wlock, iter>>

cfgVars == <<disk, loaded, orig>>

(***************************************************************************)
(* The concurrent map.                                                     *)
(***************************************************************************)
\* cmap.New[Context](): the empty map.
NewSdkCollection == [i \in Ids |-> Nil]

\* The callback, closing the Context that comes in instead of the one stored.
UpsertCloses_ClosesNew(m, ctx) ==
    LET valueInMap == m[GetId(ctx)]
    IN IF valueInMap # Nil /\ valueInMap # ctx THEN ctx ELSE Nil

\* The callback, without the comparison of the two instances.
UpsertCloses_NoInstanceCheck(m, ctx) == m[GetId(ctx)]

\* The callback, closing nothing.
UpsertCloses_Never(m, ctx) == Nil

\* The callback of Add handed to Upsert: the Context it closes, Nil when it
\* closes none.
UpsertCloses(m, ctx) ==
    LET exist == m[GetId(ctx)] # Nil
        valueInMap == m[GetId(ctx)]
    IN IF exist /\ valueInMap # Nil /\ valueInMap # ctx THEN valueInMap ELSE Nil

\* The Upsert with a callback that returns valueInMap when there is one.
Upsert_ReturnsValueInMap(m, ctx) ==
    IF m[GetId(ctx)] # Nil THEN m ELSE [m EXCEPT ![GetId(ctx)] = ctx]

\* set.contexts.Upsert(ctx.GetId(), ctx, cb): the map stores what cb returns.
Upsert(m, ctx) == [m EXCEPT ![GetId(ctx)] = ctx]

\* The Set, under a key that is not the identity of ctx.
Set_UnderOtherKey(m, ctx) ==
    [m EXCEPT ![CHOOSE id \in Ids : id # GetId(ctx)] = ctx]

\* set.contexts.Set(ctx.GetId(), ctx)
Set(m, ctx) == [m EXCEPT ![GetId(ctx)] = ctx]

\* set.contexts.Remove(id)
RemoveKey(m, id) == [m EXCEPT ![id] = Nil]

\* valueInMap.Close(), counted.
Close(k, h) == IF h = Nil THEN k ELSE [k EXCEPT ![h] = @ + 1]

\* The counter of Close calls is capped: a step that would close a Context
\* already closed MaxClose times is not taken.
CanClose(h) == IF h = Nil THEN TRUE ELSE closed[h] < MaxClose

(***************************************************************************)
(* Config values and their JSON form (config.go).                          *)
(***************************************************************************)
\* A Go string is a sequence of bytes. Three stand for all: an ASCII letter,
\* a byte that is not valid UTF-8, and U+FFFD (which is valid UTF-8).
Runes == {"h", "xFF", "uFFFD"}
GoStrings == UNION {[1..n -> Runes] : n \in 0..MaxStrLen}

\* A []string: nil, or a slice of strings.
NilSlice == [nil |-> TRUE, items |-> <<>>]
Slices ==
    {NilSlice} \cup
    {[nil |-> FALSE, items |-> q] :
        q \in UNION {[1..n -> GoStrings] : n \in 0..MaxTypes}}

\* identity.Config: the zero value, or one of two identities.
IdConfigs == {"zero", "i1", "i2"}

\* apis.Credentials: the nil interface, or a credentials value.
CredentialValues == {"nil", "cr"}

\* type Config struct
Configs ==
    [ZtAPI : GoStrings, ConfigTypes : Slices, ID : IdConfigs,
     Credentials : CredentialValues]

\* Config{}
ZeroConfig ==
    [ZtAPI |-> <<>>, ConfigTypes |-> NilSlice, ID |-> "zero", Credentials |-> "nil"]

\* The json tags of the fields of Config.
Tags ==
    [ZtAPI |-> "ztAPI", ConfigTypes |-> "configTypes", ID |-> "id",
     Credentials |-> "-"]

\* encoding/json writes and reads strings as valid UTF-8: a byte that is
\* not valid UTF-8 becomes U+FFFD.
ToValidUTF8(str) ==
    [i \in 1..Len(str) |-> IF str[i] = "xFF" THEN "uFFFD" ELSE str[i]]

ToValidUTF8All(q) == [i \in 1..Len(q) |-> ToValidUTF8(q[i])]

\* The bytes of a file: no file, bytes that are not JSON, a JSON document
\* whose values have the wrong type, or a JSON object: its keys and the
\* values under them.
EmptyDoc ==
    [ztAPI |-> <<>>, configTypes |-> NilSlice, id |-> "zero", credentials |-> "nil"]
NoFile == [kind |-> "none", keys |-> {}, doc |-> EmptyDoc]
Garbage == [kind |-> "garbage", keys |-> {}, doc |-> EmptyDoc]
Mistyped == [kind |-> "mistyped", keys |-> {"ztAPI"}, doc |-> EmptyDoc]

\* json.Marshal, writing ConfigTypes as null whatever it holds.
Marshal_NoConfigTypes(c) ==
    [kind |-> "json",
     keys |-> {"ztAPI", "configTypes", "id"},
     doc |-> [ztAPI |-> ToValidUTF8(c.ZtAPI),
              configTypes |-> NilSlice,
              id |-> c.ID,
              credentials |-> "nil"]]

\* json.Marshal(c) of a Config: every field is written under its tag, but a
\* field tagged "-".
Marshal(c) ==
    [kind |-> "json",
     keys |-> {Tags[f] : f \in DOMAIN Tags} \ {"-"},
     doc |-> [ztAPI |-> ToValidUTF8(c.ZtAPI),
              configTypes |-> [nil |-> c.ConfigTypes.nil,
                               items |-> ToValidUTF8All(c.ConfigTypes.items)],
              id |-> c.ID,
              credentials |-> IF Tags.Credentials = "-"
                              THEN "nil" ELSE c.Credentials]]

\* No load made yet; what is kept of a load: whether it succeeded, the "id"
\* of its payload, and the Credentials of its Config.
NoLoad == [ok |-> FALSE, id |-> "zero", cred |-> "nil"]
NotLoaded ==
    [ok |-> FALSE, err |-> "unset", cfg |-> ZeroConfig, calls |-> <<>>,
     file |-> <<>>, last |-> NoLoad, prev |-> NoLoad]
NotSerialized == [set |-> FALSE, c |-> ZeroConfig]

\* The map is sharded: each shard has its own RWMutex, and a key lives in
\* the shard its hash selects. The two identities hash to different shards.
NShards == 2
Shards == 1..NShards
ShardOf(id) == IF id = "a" THEN 1 ELSE NShards

\* shard.Lock() returns: no goroutine holds the shard's lock in either mode.
CanLock(id) == wlock[ShardOf(id)] = Nil /\ rlock[ShardOf(id)] = {}

\* shard.RLock() returns: no goroutine holds the shard's write lock.
CanRLock(s) == wlock[s] = Nil

\* No ForAll in progress.
NoIter == [shard |-> 0, todo |-> {}, seen |-> <<>>, f |-> "none", h |-> Nil]

\* The locks free, no ForAll running, no configuration file written.
Quiescent ==
    /\ rlock = [s \in Shards |-> {}]
    /\ wlock = [s \in Shards |-> Nil]
    /\ iter = [t \in Threads |-> NoIter]
    /\ kept = [start |-> NewSdkCollection, quiet |-> TRUE, stable |-> {}]
    /\ disk = NoFile
    /\ loaded = NotLoaded
    /\ orig = NotSerialized

NoErr == "nil"
Returned(ctx, err) == [ctx |-> ctx, err |-> err]
Unset == [ctx |-> Nil, err |-> "unset"]

Init ==
    /\ contexts = NewSdkCollection
    /\ closed = [h \in Handles |-> 0]
    /\ setConfigTypes \in {<<>>, <<"d">>}
    /\ cfgTypes \in [Cfgs -> {<<>>, <<"t">>}]
    /\ pc = [t \in Threads |-> "idle"]
    /\ arg = [t \in Threads |-> Nil]
    /\ ret = [t \in Threads |-> Unset]
    /\ last = [op |-> "none", arg |-> Nil, id |-> "-", contexts |-> contexts,
               closed |-> closed, cfgTypes |-> cfgTypes, factory |-> Unset]
    /\ envValue = <<>>
    /\ identityFiles = <<>>
    /\ idx = 1
    /\ logged = <<>>
    /\ reads = <<>>
    /\ made = <<>>
    /\ Quiescent

(***************************************************************************)
(* Add: the Upsert, then the Set.                                          *)
(***************************************************************************)
Add_Upsert(t, ctx) ==
    /\ pc[t] = "idle"
    /\ CanLock(GetId(ctx))
    /\ CanClose(UpsertCloses(contexts, ctx))
    /\ closed' = Close(closed, UpsertCloses(contexts, ctx))
    /\ contexts' = Upsert(contexts, ctx)
    /\ pc' = [pc EXCEPT ![t] = "add_set"]
    /\ arg' = [arg EXCEPT ![t] = ctx]
    /\ ret' = [ret EXCEPT ![t] = Unset]
    /\ UNCHANGED <<setConfigTypes, cfgTypes, envVars, lockVars, cfgVars>>

Add_Set(t) ==
    /\ pc[t] = "add_set"
    /\ CanLock(GetId(arg[t]))
    /\ contexts' = Set(contexts, arg[t])
    /\ pc' = [pc EXCEPT ![t] = "idle"]
    /\ arg' = [arg EXCEPT ![t] = Nil]
    /\ ret' = [ret EXCEPT ![t] = Returned(Nil, NoErr)]
    /\ UNCHANGED <<closed, setConfigTypes, cfgTypes, envVars, lockVars, cfgVars>>

(***************************************************************************)
(* Remove and RemoveById.                                                  *)
(***************************************************************************)
RemoveById(t, id) ==
    /\ pc[t] = "idle"
    /\ CanLock(id)
    /\ contexts' = RemoveKey(contexts, id)
    /\ ret' = [ret EXCEPT ![t] = Returned(Nil, NoErr)]
    /\ UNCHANGED <<closed, setConfigTypes, cfgTypes, pc, arg, envVars, lockVars, cfgVars>>

\* Remove, closing the Context it removes.
Remove_Closing(t, ctx) ==
    /\ pc[t] = "idle"
    /\ CanLock(GetId(ctx))
    /\ contexts' = RemoveKey(contexts, GetId(ctx))
    /\ closed' = Close(closed, contexts[GetId(ctx)])
    /\ ret' = [ret EXCEPT ![t] = Returned(Nil, NoErr)]
    /\ UNCHANGED <<setConfigTypes, cfgTypes, pc, arg, envVars, lockVars, cfgVars>>

\* Remove, removing the entry only when it holds ctx itself.
Remove_IfSameInstance(t, ctx) ==
    /\ pc[t] = "idle"
    /\ CanLock(GetId(ctx))
    /\ contexts' = IF contexts[GetId(ctx)] = ctx
                   THEN RemoveKey(contexts, GetId(ctx))
                   ELSE contexts
    /\ ret' = [ret EXCEPT ![t] = Returned(Nil, NoErr)]
    /\ UNCHANGED <<closed, setConfigTypes, cfgTypes, pc, arg, envVars, lockVars, cfgVars>>

Remove(t, ctx) ==
    /\ pc[t] = "idle"
    /\ CanLock(GetId(ctx))
    /\ contexts' = RemoveKey(contexts, GetId(ctx))
    /\ ret' = [ret EXCEPT ![t] = Returned(Nil, NoErr)]
    /\ UNCHANGED <<closed, setConfigTypes, cfgTypes, pc, arg, envVars, lockVars, cfgVars>>

(***************************************************************************)
(* The configuration loader (config.go).                                   *)
(***************************************************************************)
\* File names are strings of characters. The file system holds three
\* files: "g", a well-formed configuration, "b", bytes that are not JSON,
\* and "c", whose bytes are those last written to it.
GoodBytes ==
    [kind |-> "json", keys |-> {"ztAPI", "configTypes", "id"},
     doc |-> [ztAPI |-> <<"h">>,
              configTypes |-> [nil |-> FALSE, items |-> << <<"h">> >>],
              id |-> "i1", credentials |-> "nil"]]

\* os.ReadFile(confFile)
ReadFile(confFile) ==
    IF confFile = <<"g">> THEN [err |-> FALSE, bytes |-> GoodBytes]
    ELSE IF confFile = <<"b">> THEN [err |-> FALSE, bytes |-> Garbage]
    ELSE IF confFile = <<"c">> /\ disk.kind # "none"
         THEN [err |-> FALSE, bytes |-> disk]
    ELSE [err |-> TRUE, bytes |-> NoFile]

\* json.Unmarshal(conf, &c), c a Config{}: an error, or c with every field
\* whose tag is a key of the document set from the value under it; null
\* leaves a field as it was, and a field tagged "-" is never set.
Unmarshal(conf) ==
    IF conf.kind # "json" THEN [err |-> TRUE, c |-> ZeroConfig]
    ELSE [err |-> FALSE,
          c |-> [ZtAPI |-> IF Tags.ZtAPI \in conf.keys
                           THEN ToValidUTF8(conf.doc.ztAPI)
                           ELSE ZeroConfig.ZtAPI,
                 ConfigTypes |-> IF Tags.ConfigTypes \in conf.keys
                                    /\ ~conf.doc.configTypes.nil
                                 THEN [nil |-> FALSE,
                                       items |-> ToValidUTF8All(
                                                   conf.doc.configTypes.items)]
                                 ELSE ZeroConfig.ConfigTypes,
                 ID |-> IF Tags.ID \in conf.keys
                        THEN conf.doc.id ELSE ZeroConfig.ID,
                 Credentials |-> IF Tags.Credentials \in conf.keys
                                 THEN conf.doc.credentials
                                 ELSE ZeroConfig.Credentials]]

NotFound == "config file (%s) is not found "
Malformed == "failed to load ziti configuration (%s): %v"

\* NewConfigFromFile, parsing what a failed read left and reporting the
\* failure of the parse.
NewConfigFromFile_ParsesAfterFailedRead(confFile) ==
    LET conf == ReadFile(confFile)
        parsed == Unmarshal(conf.bytes)
    IN IF parsed.err
       THEN [ok |-> FALSE, err |-> Malformed, cfg |-> ZeroConfig,
             calls |-> <<"ReadFile", "Unmarshal">>]
       ELSE [ok |-> TRUE, err |-> NoErr, cfg |-> parsed.c,
             calls |-> <<"ReadFile", "Unmarshal">>]

\* NewConfigFromFile(confFile): (*Config, error), and the calls it made.
NewConfigFromFile(confFile) ==
    LET conf == ReadFile(confFile) IN
    IF conf.err
    THEN [ok |-> FALSE, err |-> NotFound, cfg |-> ZeroConfig,
          calls |-> <<"ReadFile">>]
    ELSE LET parsed == Unmarshal(conf.bytes) IN
         IF parsed.err
         THEN [ok |-> FALSE, err |-> Malformed, cfg |-> ZeroConfig,
               calls |-> <<"ReadFile", "Unmarshal">>]
         ELSE [ok |-> TRUE, err |-> NoErr, cfg |-> parsed.c,
               calls |-> <<"ReadFile", "Unmarshal">>]

Files == {<<"g">>, <<"b">>, <<"m">>}

(***************************************************************************)
(* NewContextWithOpts and the functions that end in it.                    *)
(***************************************************************************)
\* ziti.NewContextWithOpts(cfg, options), the external factory: it returns
\* an error, or a Context of any identity.
FactoryResults ==
    {Returned(h, NoErr) : h \in Handles} \cup {Returned(Nil, "create")}

\* NewContextWithOpts taking the write lock of a shard before it calls the
\* factory.
New_Call_Locked(t, cfg) ==
    /\ pc[t] = "idle"
    /\ CanLock("a")
    /\ Len(cfgTypes[cfg]) + Len(setConfigTypes) <= MaxTypes
    /\ cfgTypes' = [cfgTypes EXCEPT ![cfg] = cfgTypes[cfg] \o setConfigTypes]
    /\ wlock' = [wlock EXCEPT ![ShardOf("a")] = t]
    /\ pc' = [pc EXCEPT ![t] = "factory"]
    /\ arg' = [arg EXCEPT ![t] = cfg]
    /\ ret' = [ret EXCEPT ![t] = Unset]
    /\ UNCHANGED <<contexts, closed, setConfigTypes, rlock, iter, envVars, cfgVars>>

\* NewContextWithOpts(cfg, options), NewContext(cfg): the append to
\* cfg.ConfigTypes, then the call of the factory.
New_Call(t, cfg) ==
    /\ pc[t] = "idle"
    /\ Len(cfgTypes[cfg]) + Len(setConfigTypes) <= MaxTypes
    /\ cfgTypes' = [cfgTypes EXCEPT ![cfg] = cfgTypes[cfg] \o setConfigTypes]
    /\ pc' = [pc EXCEPT ![t] = "factory"]
    /\ arg' = [arg EXCEPT ![t] = cfg]
    /\ ret' = [ret EXCEPT ![t] = Unset]
    /\ UNCHANGED <<contexts, closed, setConfigTypes, envVars, lockVars, cfgVars>>

\* NewContextFromFile(file), NewContextFromFileWithOpts(file, options): the
\* load, its error returned, or NewContextWithOpts on the loaded Config.
New_FromFile(t, file) ==
    /\ pc[t] = "idle"
    /\ LET r == NewConfigFromFile(file) IN
       IF r.ok
       THEN /\ pc' = [pc EXCEPT ![t] = "factory"]
            /\ arg' = [arg EXCEPT ![t] = Nil]
            /\ ret' = [ret EXCEPT ![t] = Unset]
       ELSE /\ ret' = [ret EXCEPT ![t] = Returned(Nil, r.err)]
            /\ UNCHANGED <<pc, arg>>
    /\ UNCHANGED <<contexts, closed, setConfigTypes, cfgTypes, envVars, lockVars, cfgVars>>

\* The factory's error, dropped: the call returns no Context and no error.
New_FactoryErr_Dropped(t, r) ==
    /\ pc[t] = "factory"
    /\ r \in FactoryResults
    /\ r.err # NoErr
    /\ pc' = [pc EXCEPT ![t] = "idle"]
    /\ arg' = [arg EXCEPT ![t] = Nil]
    /\ ret' = [ret EXCEPT ![t] = Returned(Nil, NoErr)]
    /\ UNCHANGED <<contexts, closed, setConfigTypes, cfgTypes, envVars, lockVars, cfgVars>>

\* The factory returns an error: it is returned, with no Context.
New_FactoryErr(t, r) ==
    /\ pc[t] = "factory"
    /\ r \in FactoryResults
    /\ r.err # NoErr
    /\ pc' = [pc EXCEPT ![t] = "idle"]
    /\ arg' = [arg EXCEPT ![t] = Nil]
    /\ ret' = [ret EXCEPT ![t] = Returned(Nil, r.err)]
    /\ UNCHANGED <<contexts, closed, setConfigTypes, cfgTypes, envVars, lockVars, cfgVars>>

\* The factory returns a Context: set.Add(ctx), its Upsert.
New_FactoryOk(t, r) ==
    /\ pc[t] = "factory"
    /\ r \in FactoryResults
    /\ r.err = NoErr
    /\ CanLock(GetId(r.ctx))
    /\ CanClose(UpsertCloses(contexts, r.ctx))
    /\ closed' = Close(closed, UpsertCloses(contexts, r.ctx))
    /\ contexts' = Upsert(contexts, r.ctx)
    /\ pc' = [pc EXCEPT ![t] = "new_set"]
    /\ arg' = [arg EXCEPT ![t] = r.ctx]
    /\ UNCHANGED <<setConfigTypes, cfgTypes, ret, envVars, lockVars, cfgVars>>

\* set.Add(ctx), its Set, and the return of ctx.
New_Set(t) ==
    /\ pc[t] = "new_set"
    /\ CanLock(GetId(arg[t]))
    /\ contexts' = Set(contexts, arg[t])
    /\ pc' = [pc EXCEPT ![t] = "idle"]
    /\ arg' = [arg EXCEPT ![t] = Nil]
    /\ ret' = [ret EXCEPT ![t] = Returned(arg[t], NoErr)]
    /\ UNCHANGED <<closed, setConfigTypes, cfgTypes, envVars, lockVars, cfgVars>>

(***************************************************************************)
(* Goroutines calling the collection concurrently.                         *)
(***************************************************************************)
Next ==
    \E t \in Workers :
        \/ \E ctx \in Handles : Add_Upsert(t, ctx) /\ UNCHANGED <<last, kept>>
        \/ Add_Set(t) /\ UNCHANGED <<last, kept>>
        \/ \E ctx \in Handles : Remove(t, ctx) /\ UNCHANGED <<last, kept>>
        \/ \E id \in Ids : RemoveById(t, id) /\ UNCHANGED <<last, kept>>
        \/ \E cfg \in Cfgs : New_Call(t, cfg) /\ UNCHANGED <<last, kept>>
        \/ \E r \in FactoryResults : New_FactoryErr(t, r) /\ UNCHANGED <<last, kept>>
        \/ \E r \in FactoryResults : New_FactoryOk(t, r) /\ UNCHANGED <<last, kept>>
        \/ New_Set(t) /\ UNCHANGED <<last, kept>>

Spec == Init /\ [][Next]_vars

(***************************************************************************)
(* One goroutine calling the collection: each call runs to its return      *)
(* before the next starts, and the state it started in is recorded.        *)
(***************************************************************************)
Main == 1

\* The call that starts: its name, its Context or *Config, the identity it
\* is about, and the state it starts in.
Call(op, a, id) ==
    /\ last' = [op |-> op, arg |-> a, id |-> id, contexts |-> contexts,
                closed |-> closed, cfgTypes |-> cfgTypes, factory |-> Unset]
    /\ UNCHANGED kept

\* What the factory returned to the call.
FactoryReturned(r) == last' = [last EXCEPT !.factory = r] /\ UNCHANGED kept

SeqNext ==
    \/ \E ctx \in Handles : Add_Upsert(Main, ctx) /\ Call("Add", ctx, GetId(ctx))
    \/ Add_Set(Main) /\ UNCHANGED <<last, kept>>
    \/ \E ctx \in Handles : Remove(Main, ctx) /\ Call("Remove", ctx, GetId(ctx))
    \/ \E id \in Ids : RemoveById(Main, id) /\ Call("RemoveById", Nil, id)
    \/ \E cfg \in Cfgs : New_Call(Main, cfg) /\ Call("NewContextWithOpts", cfg, "-")
    \/ \E file \in Files :
          New_FromFile(Main, file) /\ Call("NewContextFromFile", Nil, "-")
    \/ \E r \in FactoryResults : New_FactoryErr(Main, r) /\ FactoryReturned(r)
    \/ \E r \in FactoryResults : New_FactoryOk(Main, r) /\ FactoryReturned(r)
    \/ New_Set(Main) /\ UNCHANGED <<last, kept>>

SpecSeq == Init /\ [][SeqNext]_vars

(***************************************************************************)
(* The race: every racer calls Add once, each with its own Context, all of *)
(* one identity.                                                           *)
(***************************************************************************)
RaceNext ==
    \E t \in Racers :
        \/ ret[t] = Unset /\ Add_Upsert(t, t) /\ UNCHANGED <<last, kept>>
        \/ Add_Set(t) /\ UNCHANGED <<last, kept>>

SpecRace == Init /\ [][RaceNext]_vars

(***************************************************************************)
(* NewSdkCollectionFromEnv: the goroutine Main builds a collection from    *)
(* the environment value; nobody else holds the collection until it        *)
(* returns.                                                                *)
(***************************************************************************)
EnvChars == {";", "g", "b", "m"}

Strings(n) == UNION {[1..k -> EnvChars] : k \in 0..n}

RECURSIVE Split(_)
\* strings.Split(s, ";")
Split(s) ==
    LET seps == {i \in 1..Len(s) : s[i] = ";"} IN
    IF seps = {} THEN <<s>>
    ELSE LET i == CHOOSE j \in seps : \A k \in seps : j <= k
         IN <<SubSeq(s, 1, i - 1)>> \o Split(SubSeq(s, i + 1, Len(s)))

EnvInit ==
    /\ contexts = NewSdkCollection
    /\ closed = [h \in Handles |-> 0]
    /\ setConfigTypes = <<>>
    /\ cfgTypes = [c \in Cfgs |-> <<>>]
    /\ pc = [t \in Threads |-> "idle"]
    /\ arg = [t \in Threads |-> Nil]
    /\ ret = [t \in Threads |-> Unset]
    /\ last = [op |-> "none", arg |-> Nil, id |-> "-", contexts |-> contexts,
               closed |-> closed, cfgTypes |-> cfgTypes, factory |-> Unset]
    /\ envValue \in Strings(MaxEnvLen)
    /\ identityFiles = Split(envValue)
    /\ idx = 1
    /\ logged = <<>>
    /\ reads = <<>>
    /\ made = <<>>
    /\ Quiescent

Errorf(msg, file) == [msg |-> msg, file |-> file]

\* The head of the loop body, with a break in the place of the continue
\* that follows a failed load.
Env_Segment_Break ==
    /\ idx <= Len(identityFiles)
    /\ pc[Main] = "idle"
    /\ ret[Main] = Unset
    /\ LET identityFile == identityFiles[idx] IN
       IF identityFile = <<>>
       THEN /\ idx' = idx + 1
            /\ UNCHANGED <<pc, reads, logged>>
       ELSE /\ reads' = Append(reads, identityFile)
            /\ IF NewConfigFromFile(identityFile).ok
               THEN /\ pc' = [pc EXCEPT ![Main] = "factory"]
                    /\ UNCHANGED <<idx, logged>>
               ELSE /\ logged' = Append(logged,
                           Errorf("failed to load config from file", identityFile))
                    /\ idx' = Len(identityFiles) + 1
                    /\ pc' = pc
    /\ UNCHANGED <<contexts, closed, setConfigTypes, cfgTypes, arg, ret, last,
                   kept, lockVars, cfgVars,
                   envValue, identityFiles, made>>

\* The head of the loop body: an empty segment, or NewConfigFromFile and
\* its error, or the call collection.NewContext(cfg).
Env_Segment ==
    /\ idx <= Len(identityFiles)
    /\ pc[Main] = "idle"
    /\ ret[Main] = Unset
    /\ LET identityFile == identityFiles[idx] IN
       IF identityFile = <<>>
       THEN /\ idx' = idx + 1
            /\ UNCHANGED <<pc, reads, logged>>
       ELSE /\ reads' = Append(reads, identityFile)
            /\ IF NewConfigFromFile(identityFile).ok
               THEN /\ pc' = [pc EXCEPT ![Main] = "factory"]
                    /\ UNCHANGED <<idx, logged>>
               ELSE /\ logged' = Append(logged,
                           Errorf("failed to load config from file", identityFile))
                    /\ idx' = idx + 1
                    /\ pc' = pc
    /\ UNCHANGED <<contexts, closed, setConfigTypes, cfgTypes, arg, ret, last,
                   kept, lockVars, cfgVars,
                   envValue, identityFiles, made>>

\* collection.NewContext(cfg) has returned: its error is logged, and the
\* loop goes on.
Env_Created ==
    /\ idx <= Len(identityFiles)
    /\ pc[Main] = "idle"
    /\ ret[Main] # Unset
    /\ logged' = IF ret[Main].err # NoErr
                 THEN Append(logged,
                        Errorf("failed to create context from", identityFiles[idx]))
                 ELSE logged
    /\ made' = Append(made, ret[Main])
    /\ ret' = [ret EXCEPT ![Main] = Unset]
    /\ idx' = idx + 1
    /\ UNCHANGED <<contexts, closed, setConfigTypes, cfgTypes, pc, arg, last,
                   kept, lockVars, cfgVars,
                   envValue, identityFiles, reads>>

EnvNext ==
    \/ Env_Segment
    \/ \E r \in FactoryResults : New_FactoryErr(Main, r) /\ UNCHANGED <<last, kept>>
    \/ \E r \in FactoryResults : New_FactoryOk(Main, r) /\ UNCHANGED <<last, kept>>
    \/ New_Set(Main) /\ UNCHANGED <<last, kept>>
    \/ Env_Created

SpecEnv == EnvInit /\ [][EnvNext]_vars

\* NewSdkCollectionFromEnv has returned the collection.
EnvReturned == idx > Len(identityFiles)

(***************************************************************************)
(* Properties of one goroutine's calls (SpecSeq).                          *)
(***************************************************************************)
\* The call recorded in last has returned.
SeqReturned == pc[Main] = "idle" /\ last.op # "none"

\* C1: when Add(h2) returns and a distinct h1 of the same identity was stored
\* when it was called (as it is after Add(h1)), Close has been called once
\* more on h1 and on no other Context, h2 included; whatever was stored, the
\* collection now holds h2 under its identity.
C1_AddReplacesAndClosesOnce ==
    (SeqReturned /\ last.op = "Add") =>
        LET h2 == last.arg
            h1 == last.contexts[GetId(h2)]
        IN /\ contexts[GetId(h2)] = h2
           /\ (h1 # Nil /\ h1 # h2) =>
                  closed = [last.closed EXCEPT ![h1] = last.closed[h1] + 1]

C1_Witness ==
    /\ SeqReturned
    /\ last.op = "Add"
    /\ last.arg = 2
    /\ last.contexts[GetId(2)] = 1
    /\ closed[1] = 1
    /\ closed[2] = 0
    /\ contexts[GetId(2)] = 2

\* C4: an Add(h) called when h is already stored under its identity calls
\* Close on nothing and leaves the whole map as it was, at both of its steps.
C4_AddSameInstanceIsNoOp ==
    (last.op = "Add" /\ last.contexts[GetId(last.arg)] = last.arg) =>
        /\ closed = last.closed
        /\ contexts = last.contexts

C4_Witness ==
    /\ SeqReturned
    /\ last.op = "Add"
    /\ last.contexts[GetId(last.arg)] = last.arg
    /\ contexts[GetId(last.arg)] = last.arg

\* C5: when Remove(h) or RemoveById(id) returns, Close has been called on
\* nothing, the identity has no entry, and every other entry is as it was;
\* when the identity had no entry the whole map is as it was.
C5_RemoveNeverCloses ==
    (SeqReturned /\ last.op \in {"Remove", "RemoveById"}) =>
        /\ closed = last.closed
        /\ contexts[last.id] = Nil
        /\ \A id \in Ids \ {last.id} : contexts[id] = last.contexts[id]
        /\ last.contexts[last.id] = Nil => contexts = last.contexts

C5_Witness ==
    /\ SeqReturned
    /\ last.op = "Remove"
    /\ last.contexts[last.id] = last.arg
    /\ contexts[last.id] = Nil
    /\ closed[last.arg] = 0
    /\ \E id \in Ids \ {last.id} : contexts[id] # Nil

\* C7 (as claimed): when NewContextWithOpts(cfg) returns, with a Context or
\* with an error, the ConfigTypes of the caller's cfg are what they were when
\* it was called.
C7_CallerCfgUnchanged ==
    (SeqReturned /\ last.op = "NewContextWithOpts") =>
        cfgTypes[last.arg] = last.cfgTypes[last.arg]

\* C8: a NewContextWithOpts, NewContext, NewContextFromFile or
\* NewContextFromFileWithOpts whose factory call returned an error returns
\* that error and no Context; the map and the Close counts are what they
\* were when it was called, also while the factory runs.
C8_FactoryErrorLeavesRegistry ==
    /\ (last.op \in {"NewContextWithOpts", "NewContextFromFile"}
            /\ pc[Main] = "factory") =>
           (contexts = last.contexts /\ closed = last.closed)
    /\ (SeqReturned /\ last.op \in {"NewContextWithOpts", "NewContextFromFile"}
            /\ last.factory.err \notin {"unset", NoErr}) =>
           /\ ret[Main] = Returned(Nil, last.factory.err)
           /\ contexts = last.contexts
           /\ closed = last.closed

C8_Witness ==
    /\ SeqReturned
    /\ last.op = "NewContextWithOpts"
    /\ last.factory.err = "create"
    /\ ret[Main].err = "create"
    /\ \E id \in Ids : contexts[id] # Nil

\* C9: a NewContextWithOpts whose factory call returned a Context h returns
\* h and no error, and at its return the map holds h under h's identity; a
\* distinct Context that was stored there has been closed once more, and no
\* other Close was called.
C9_FactorySuccessRegisters ==
    (SeqReturned /\ last.op \in {"NewContextWithOpts", "NewContextFromFile"}
        /\ last.factory.err = NoErr) =>
        LET h == last.factory.ctx
            old == last.contexts[GetId(h)]
        IN /\ ret[Main] = Returned(h, NoErr)
           /\ contexts[GetId(h)] = h
           /\ \A id \in Ids \ {GetId(h)} : contexts[id] = last.contexts[id]
           /\ closed = IF old # Nil /\ old # h
                       THEN [last.closed EXCEPT ![old] = last.closed[old] + 1]
                       ELSE last.closed

C9_Witness ==
    /\ SeqReturned
    /\ last.op = "NewContextWithOpts"
    /\ last.factory = Returned(2, NoErr)
    /\ last.contexts[GetId(2)] = 1
    /\ contexts[GetId(2)] = 2
    /\ closed[1] = last.closed[1] + 1
    /\ ret[Main].ctx = 2

(***************************************************************************)
(* Properties of the race (SpecRace).                                      *)
(***************************************************************************)
\* Every racer's Add has returned.
RaceDone == \A t \in Racers : pc[t] = "idle" /\ ret[t] # Unset

RECURSIVE CloseCalls(_)
\* The Close calls made on the Contexts of S, in total.
CloseCalls(S) ==
    IF S = {} THEN 0
    ELSE LET h == CHOOSE x \in S : TRUE IN closed[h] + CloseCalls(S \ {h})

\* C2 (as claimed): once the N concurrent Adds of N distinct Contexts of one
\* identity have all returned, Close has been called N-1 times in all, the
\* Context stored is one of the N and has not been closed, and each of the
\* others has been closed exactly once.
C2_RaceClosesAllButTheStored ==
    RaceDone =>
        LET stored == contexts[GetId(1)] IN
        /\ stored \in Racers
        /\ CloseCalls(Handles) = NRacers - 1
        /\ closed[stored] = 0
        /\ \A h \in Racers \ {stored} : closed[h] = 1

\* C3 (as claimed): Close is called at most once on any Context.
C3_ClosedAtMostOnce == \A h \in Handles : closed[h] <= 1

\* C6 (as claimed): each Add takes effect at one point. In the race the
\* Context of an Add is added by that call alone, so its first step makes it
\* visible, and is that point: the second step of the call then changes
\* nothing a reader of the identity can see.
C6_AddTakesEffectOnce ==
    [][\A t \in Racers :
          (pc[t] = "add_set" /\ pc'[t] = "idle") => contexts' = contexts]_vars

(***************************************************************************)
(* Properties of NewSdkCollectionFromEnv (SpecEnv).                        *)
(***************************************************************************)
NonEmpty(f) == f # <<>>
Loads(f) == f # <<>> /\ NewConfigFromFile(f).ok

RECURSIVE ExpectedLog(_, _)
\* The log lines due for the segments fs, given what the factory returned for
\* the segments that loaded: one per segment that failed to load, one per
\* segment whose creation failed, in the order of the segments.
ExpectedLog(fs, rs) ==
    IF fs = <<>> THEN <<>>
    ELSE LET f == Head(fs) IN
         IF f = <<>> THEN ExpectedLog(Tail(fs), rs)
         ELSE IF ~NewConfigFromFile(f).ok
         THEN <<Errorf("failed to load config from file", f)>>
                  \o ExpectedLog(Tail(fs), rs)
         ELSE IF rs = <<>> THEN <<>>
         ELSE IF Head(rs).err # NoErr
         THEN <<Errorf("failed to create context from", f)>>
                  \o ExpectedLog(Tail(fs), Tail(rs))
         ELSE ExpectedLog(Tail(fs), Tail(rs))

\* The positions of made at which a Context of identity id was created.
MadeUnder(id) ==
    {i \in 1..Len(made) :
        IF made[i].err = NoErr THEN GetId(made[i].ctx) = id ELSE FALSE}

\* The Context created last under id, Nil when none was.
LastMade(id) ==
    IF MadeUnder(id) = {} THEN Nil
    ELSE made[CHOOSE i \in MadeUnder(id) : \A j \in MadeUnder(id) : j <= i].ctx

\* What C10 says of the loop whatever the identities: every non-empty
\* segment is loaded, in order, none after a failure is left out, and each
\* failure is logged once.
EnvProcessedAll ==
    /\ reads = SelectSeq(identityFiles, NonEmpty)
    /\ Len(made) = Len(SelectSeq(identityFiles, Loads))
    /\ logged = ExpectedLog(identityFiles, made)

\* C10 (as claimed): the collection returned holds the Context of every
\* identifier whose load and creation succeeded, and no other Context.
C10_HoldsEveryCreated ==
    EnvReturned =>
        /\ EnvProcessedAll
        /\ \A i \in 1..Len(made) :
              made[i].err = NoErr => contexts[GetId(made[i].ctx)] = made[i].ctx
        /\ \A id \in Ids :
              contexts[id] # Nil =>
                  \E i \in 1..Len(made) :
                      made[i].err = NoErr /\ made[i].ctx = contexts[id]

\* C10 (amended): the collection returned holds, under every identity, the
\* Context created for the last identifier whose load and creation succeeded
\* with that identity, and no other Context.
C10_HoldsLastCreatedPerIdentity ==
    EnvReturned =>
        /\ EnvProcessedAll
        /\ \A id \in Ids : contexts[id] = LastMade(id)

C10_Witness ==
    /\ EnvReturned
    /\ envValue = <<"g", ";", "m", ";", "b", ";", "g">>
    /\ Len(logged) = 2
    /\ Len(made) = 2
    /\ contexts[GetId(1)] = 1
    /\ contexts[GetId(NHandles)] = NHandles


(***************************************************************************)
(* ForAll: contexts.IterCb takes each shard's read lock in turn and calls  *)
(* the visitor for every entry of the shard while it holds the lock.       *)
(***************************************************************************)
\* The visitors: f names the method of the collection the visitor calls
\* ("none": it calls none), h the Context it hands to that method.
VisitorCalls == {"none", "Add", "Remove"}

\* The number of visits of the Context h.
Visits(t, h) == Cardinality({i \in 1..Len(iter[t].seen) : iter[t].seen[i].ctx = h})

\* The entries of a shard.
Items(s) == {id \in Ids : ShardOf(id) = s /\ contexts[id] # Nil}

\* set.ForAll(f) is called.
ForAll_Begin(t, f, h) ==
    /\ pc[t] = "idle"
    /\ pc' = [pc EXCEPT ![t] = "forall"]
    /\ iter' = [iter EXCEPT ![t] = [shard |-> 1, todo |-> {}, seen |-> <<>>,
                                    f |-> f, h |-> h]]
    /\ ret' = [ret EXCEPT ![t] = Unset]
    /\ UNCHANGED <<contexts, closed, setConfigTypes, cfgTypes, arg, rlock, wlock,
                   envVars, cfgVars>>

\* shard.RLock(), and the range over shard.items starts.
ForAll_RLock(t) ==
    /\ pc[t] = "forall"
    /\ CanRLock(iter[t].shard)
    /\ rlock' = [rlock EXCEPT ![iter[t].shard] = @ \cup {t}]
    /\ iter' = [iter EXCEPT ![t].todo = Items(iter[t].shard)]
    /\ pc' = [pc EXCEPT ![t] = "visiting"]
    /\ UNCHANGED <<contexts, closed, setConfigTypes, cfgTypes, arg, ret, wlock,
                   envVars, cfgVars>>

\* The visit of a short-circuiting search: ForAll returns when the visitor
\* returns false.
ForAll_Visit_ShortCircuit(t, key, res) ==
    /\ pc[t] = "visiting"
    /\ iter[t].f = "none"
    /\ key \in iter[t].todo
    /\ IF res
       THEN /\ iter' = [iter EXCEPT
                          ![t].todo = @ \ {key},
                          ![t].seen = Append(@, [ctx |-> contexts[key],
                                                 res |-> res])]
            /\ UNCHANGED <<pc, ret, rlock>>
       ELSE /\ iter' = [iter EXCEPT
                          ![t].todo = {},
                          ![t].shard = 0,
                          ![t].seen = Append(@, [ctx |-> contexts[key],
                                                 res |-> res])]
            /\ rlock' = [rlock EXCEPT ![iter[t].shard] = @ \ {t}]
            /\ pc' = [pc EXCEPT ![t] = "idle"]
            /\ ret' = [ret EXCEPT ![t] = Returned(Nil, NoErr)]
    /\ UNCHANGED <<contexts, closed, setConfigTypes, cfgTypes, arg, wlock,
                   envVars, cfgVars>>

\* _ = f(ctx) for one entry, of a visitor that calls no method of the
\* collection: what f returns is dropped.
ForAll_Visit(t, key, res) ==
    /\ pc[t] = "visiting"
    /\ iter[t].f = "none"
    /\ key \in iter[t].todo
    /\ iter' = [iter EXCEPT
                   ![t].todo = @ \ {key},
                   ![t].seen = Append(@, [ctx |-> contexts[key], res |-> res])]
    /\ UNCHANGED <<contexts, closed, setConfigTypes, cfgTypes, pc, arg, ret,
                   rlock, wlock, envVars, cfgVars>>

\* f(ctx) for one entry, of a visitor that calls Add or Remove: f has been
\* entered and is at its call.
ForAll_VisitCalling(t, key) ==
    /\ pc[t] = "visiting"
    /\ iter[t].f # "none"
    /\ key \in iter[t].todo
    /\ iter' = [iter EXCEPT
                   ![t].todo = @ \ {key},
                   ![t].seen = Append(@, [ctx |-> contexts[key], res |-> TRUE])]
    /\ pc' = [pc EXCEPT ![t] = "visit_call"]
    /\ UNCHANGED <<contexts, closed, setConfigTypes, cfgTypes, arg, ret,
                   rlock, wlock, envVars, cfgVars>>

\* The visitor's set.Remove(h): it takes the write lock of h's shard.
Visitor_Remove(t) ==
    /\ pc[t] = "visit_call"
    /\ iter[t].f = "Remove"
    /\ CanLock(GetId(iter[t].h))
    /\ contexts' = RemoveKey(contexts, GetId(iter[t].h))
    /\ pc' = [pc EXCEPT ![t] = "visiting"]
    /\ UNCHANGED <<closed, setConfigTypes, cfgTypes, arg, ret, lockVars,
                   envVars, cfgVars>>

\* The visitor's set.Add(h), its Upsert.
Visitor_AddUpsert(t) ==
    /\ pc[t] = "visit_call"
    /\ iter[t].f = "Add"
    /\ CanLock(GetId(iter[t].h))
    /\ CanClose(UpsertCloses(contexts, iter[t].h))
    /\ closed' = Close(closed, UpsertCloses(contexts, iter[t].h))
    /\ contexts' = Upsert(contexts, iter[t].h)
    /\ pc' = [pc EXCEPT ![t] = "visit_add_set"]
    /\ UNCHANGED <<setConfigTypes, cfgTypes, arg, ret, lockVars, envVars, cfgVars>>

\* The visitor's set.Add(h), its Set, and the return of the visitor.
Visitor_AddSet(t) ==
    /\ pc[t] = "visit_add_set"
    /\ CanLock(GetId(iter[t].h))
    /\ contexts' = Set(contexts, iter[t].h)
    /\ pc' = [pc EXCEPT ![t] = "visiting"]
    /\ UNCHANGED <<closed, setConfigTypes, cfgTypes, arg, ret, lockVars,
                   envVars, cfgVars>>

\* The range over the shard is done: shard.RUnlock(), and the next shard,
\* or the return of ForAll after the last.
ForAll_RUnlock(t) ==
    /\ pc[t] = "visiting"
    /\ iter[t].todo = {}
    /\ rlock' = [rlock EXCEPT ![iter[t].shard] = @ \ {t}]
    /\ IF iter[t].shard < NShards
       THEN /\ iter' = [iter EXCEPT ![t].shard = @ + 1]
            /\ pc' = [pc EXCEPT ![t] = "forall"]
            /\ ret' = ret
       ELSE /\ iter' = [iter EXCEPT ![t].shard = 0, ![t].f = "none", ![t].h = Nil]
            /\ pc' = [pc EXCEPT ![t] = "idle"]
            /\ ret' = [ret EXCEPT ![t] = Returned(Nil, NoErr)]
    /\ UNCHANGED <<contexts, closed, setConfigTypes, cfgTypes, arg, wlock,
                   envVars, cfgVars>>

(***************************************************************************)
(* The goroutine Main calls ForAll while the goroutine Other calls the     *)
(* mutating methods. The observer records, for the ForAll of Main, the     *)
(* map at its call, whether the map changed since, and the Contexts that   *)
(* stayed stored since.                                                    *)
(***************************************************************************)
Other == 2

\* The Contexts the two goroutines hand to the collection: two of one
\* identity and one of the other.
IterHandles == {1, 2, NHandles}

Stored(m) == {h \in Handles : m[GetId(h)] = h}

Started ==
    kept' = [start |-> contexts, quiet |-> TRUE, stable |-> Stored(contexts)]

Observed ==
    kept' = IF pc[Main] = "idle"
            THEN kept
            ELSE [kept EXCEPT !.quiet = @ /\ contexts' = contexts,
                              !.stable = @ \cap Stored(contexts')]

\* The steps of Main inside its ForAll.
MainNext ==
    \/ ForAll_RLock(Main) /\ Observed
    \/ \E key \in Ids, res \in BOOLEAN : ForAll_Visit(Main, key, res) /\ Observed
    \/ \E key \in Ids : ForAll_VisitCalling(Main, key) /\ Observed
    \/ Visitor_Remove(Main) /\ Observed
    \/ Visitor_AddUpsert(Main) /\ Observed
    \/ Visitor_AddSet(Main) /\ Observed
    \/ ForAll_RUnlock(Main) /\ Observed

OtherNext ==
    \/ \E ctx \in IterHandles : Add_Upsert(Other, ctx) /\ Observed
    \/ Add_Set(Other) /\ Observed
    \/ \E ctx \in IterHandles : Remove(Other, ctx) /\ Observed
    \/ \E id \in Ids : RemoveById(Other, id) /\ Observed

IterNext ==
    \/ \E f \in VisitorCalls, h \in IterHandles \cup {Nil} :
          /\ f = "none" <=> h = Nil
          /\ ForAll_Begin(Main, f, h)
          /\ Started
          /\ UNCHANGED last
    \/ MainNext /\ UNCHANGED last
    \/ OtherNext /\ UNCHANGED last

IterInit ==
    /\ Init
    /\ setConfigTypes = <<>>
    /\ cfgTypes = [c \in Cfgs |-> <<>>]

SpecIter == IterInit /\ [][IterNext]_vars


\* The ForAll of Main has returned.
ForAllReturned == pc[Main] = "idle" /\ ret[Main] # Unset

\* C11: when the map did not change between the call of ForAll and its
\* return, the visitor has been invoked exactly once for every Context
\* stored at the call and for no other Context, whatever the visitor
\* returned at each visit.
C11_ForAllVisitsEachOnce ==
    (ForAllReturned /\ kept.quiet) =>
        /\ \A h \in Handles :
              Visits(Main, h) = IF h \in Stored(kept.start) THEN 1 ELSE 0
        /\ Len(iter[Main].seen) = Cardinality(Stored(kept.start))

\* A ForAll over two entries has returned, the map unchanged since its
\* call, and its visitor returned false at the first visit.
C11_Witness ==
    /\ ForAllReturned
    /\ kept.quiet
    /\ Cardinality(Stored(kept.start)) = 2
    /\ Len(iter[Main].seen) = 2
    /\ iter[Main].seen[1].res = FALSE


\* C12: a ForAll that has started can always take its next step, whatever
\* the other goroutine does and whatever method of the collection its
\* visitor calls (no lock of the map is held by another goroutine across
\* steps, so a step that cannot be taken waits for ever), and at its return
\* it has visited every Context that stayed stored since its call.
C12_ForAllAlwaysCompletes ==
    /\ pc[Main] # "idle" => ENABLED MainNext
    /\ ForAllReturned =>
          \A h \in kept.stable : Visits(Main, h) >= 1


(***************************************************************************)
(* The loader on the file "c": the file is written, with the JSON form of  *)
(* a Config or with a payload from elsewhere, and NewConfigFromFile loads  *)
(* it.                                                                     *)
(***************************************************************************)
\* The "id" of a payload: the zero identity.Config when it has none.
PayloadId(bytes) ==
    IF bytes.kind = "json" /\ "id" \in bytes.keys THEN bytes.doc.id ELSE "zero"

\* The "credentials" of a payload.
PayloadHasCredentials(bytes) ==
    bytes.kind = "json" /\ "credentials" \in bytes.keys

\* Payloads not written by json.Marshal: no file, bytes that do not parse,
\* and JSON objects with any of the keys.
Payloads ==
    {NoFile, Garbage, Mistyped} \cup
    {[kind |-> "json", keys |-> K,
      doc |-> [ztAPI |-> <<"h">>, configTypes |-> NilSlice, id |-> i,
               credentials |-> cr]] :
        K \in SUBSET {"ztAPI", "configTypes", "id", "credentials"},
        i \in IdConfigs, cr \in CredentialValues}

\* What is kept of the last load when the file is written again.
Forget == [NotLoaded EXCEPT !.last = loaded.last]

\* json.Marshal(c) is written to the file.
Cfg_Serialize(c) ==
    /\ disk' = Marshal(c)
    /\ orig' = [set |-> TRUE, c |-> c]
    /\ loaded' = Forget
    /\ UNCHANGED <<contexts, closed, setConfigTypes, cfgTypes, pc, arg, ret,
                   last, kept, envVars, lockVars>>

\* A payload is put in the place of the file.
Cfg_Payload(bytes) ==
    /\ disk' = bytes
    /\ orig' = NotSerialized
    /\ loaded' = Forget
    /\ UNCHANGED <<contexts, closed, setConfigTypes, cfgTypes, pc, arg, ret,
                   last, kept, envVars, lockVars>>

\* NewConfigFromFile(confFile) is called and returns.
Cfg_Load(confFile) ==
    /\ loaded.file = <<>>
    /\ LET r == NewConfigFromFile(confFile) IN
       loaded' = [ok |-> r.ok, err |-> r.err, cfg |-> r.cfg, calls |-> r.calls,
                  file |-> confFile,
                  last |-> [ok |-> r.ok,
                            id |-> PayloadId(ReadFile(confFile).bytes),
                            cred |-> r.cfg.Credentials],
                  prev |-> loaded.last]
    /\ UNCHANGED <<disk, orig, contexts, closed, setConfigTypes, cfgTypes, pc,
                   arg, ret, last, kept, envVars, lockVars>>

CfgNext ==
    \/ \E c \in Configs : Cfg_Serialize(c)
    \/ \E bytes \in Payloads : Cfg_Payload(bytes)
    \/ \E confFile \in Files \cup {<<"c">>} : Cfg_Load(confFile)

SpecCfg == IterInit /\ [][CfgNext]_vars

\* NewConfigFromFile("c") has returned, and the file is as it was loaded.
Loaded == loaded.file = <<"c">>

\* C13: a load that succeeds on a payload whose "id" is set and that has no
\* credentials returns a Config whose Credentials are set, and two such
\* loads of payloads with the same "id" return the same Credentials.
C13_LoadSetsCredentialsFromId ==
    (Loaded /\ loaded.ok /\ PayloadId(disk) # "zero"
        /\ ~PayloadHasCredentials(disk)) =>
        /\ loaded.cfg.Credentials # "nil"
        /\ (loaded.prev.ok /\ loaded.prev.id = PayloadId(disk)) =>
              loaded.prev.cred = loaded.cfg.Credentials


\* The number of calls of one function among the calls made.
Count(calls, f) == Cardinality({i \in 1..Len(calls) : calls[i] = f})

\* C14: a load of a file that cannot be read returns the not-found error
\* and no Config, without parsing anything; a load of a file that is read
\* and does not parse returns the other, malformed, error and no Config; a
\* load of a file that is read and parses returns a Config and no error;
\* the two errors differ, and the file is read once.
C14_LoaderErrorsDistinguished ==
    Loaded =>
        /\ disk.kind = "none" <=> loaded.err = NotFound
        /\ disk.kind \in {"garbage", "mistyped"} <=> loaded.err = Malformed
        /\ disk.kind = "json" <=> loaded.err = NoErr
        /\ loaded.ok <=> loaded.err = NoErr
        /\ ~loaded.ok => loaded.cfg = ZeroConfig
        /\ loaded.err = NotFound => Count(loaded.calls, "Unmarshal") = 0
        /\ loaded.err # NotFound => Count(loaded.calls, "Unmarshal") = 1
        /\ Count(loaded.calls, "ReadFile") = 1
        /\ NotFound # Malformed

\* A load of a file that cannot be read has returned the not-found error.
C14_Witness ==
    /\ Loaded
    /\ disk.kind = "none"
    /\ loaded.err = NotFound
    /\ ~loaded.ok


\* C15: in every state the goroutines calling Add, Remove, RemoveById and
\* NewContextWithOpts can reach, the map holds under every identity one
\* Context or none, and every Context it holds is held under the key that
\* is its own identity (so no Context is held under two keys either).
C15_OneHandlePerIdentity ==
    /\ DOMAIN contexts = Ids
    /\ \A id \in Ids : contexts[id] \in Handles \cup {Nil}
    /\ \A id \in Ids : contexts[id] # Nil => GetId(contexts[id]) = id
    /\ \A h \in Handles : Cardinality({id \in Ids : contexts[id] = h}) <= 1

\* Both identities are stored while one goroutine is between the Upsert
\* and the Set of an Add and the other inside NewContextWithOpts.
C15_Witness ==
    /\ contexts["a"] # Nil
    /\ contexts["b"] # Nil
    /\ \E t \in Workers : pc[t] = "add_set"
    /\ \E t \in Workers : pc[t] = "new_set"


\* A string that is valid UTF-8.
ValidUTF8(str) == \A i \in 1..Len(str) : str[i] # "xFF"

\* The Config that was serialized has only valid UTF-8 in its ZtAPI and in
\* its ConfigTypes.
OrigValidUTF8 ==
    /\ ValidUTF8(orig.c.ZtAPI)
    /\ \A i \in 1..Len(orig.c.ConfigTypes.items) :
          ValidUTF8(orig.c.ConfigTypes.items[i])

\* C16 as stated: for every Config c, the load of the JSON form of c
\* succeeds with the ZtAPI and the ConfigTypes of c, and the JSON form of c
\* has no credentials.
C16_RoundTripEveryConfig ==
    /\ orig.set => "credentials" \notin disk.keys
    /\ (Loaded /\ orig.set) =>
          /\ loaded.ok
          /\ loaded.cfg.ZtAPI = orig.c.ZtAPI
          /\ loaded.cfg.ConfigTypes = orig.c.ConfigTypes

\* C16, amended: for every Config c whose ZtAPI and ConfigTypes are valid
\* UTF-8, the load of the JSON form of c succeeds with the ZtAPI and the
\* ConfigTypes of c; and the JSON form of every Config c has no credentials,
\* whatever the Credentials of c.
C16_RoundTripValidUTF8 ==
    /\ orig.set => "credentials" \notin disk.keys
    /\ (Loaded /\ orig.set /\ OrigValidUTF8) =>
          /\ loaded.ok
          /\ loaded.cfg.ZtAPI = orig.c.ZtAPI
          /\ loaded.cfg.ConfigTypes = orig.c.ConfigTypes

\* The JSON form of a Config with Credentials, a ZtAPI and two ConfigTypes,
\* all valid UTF-8, has been loaded.
C16_Witness ==
    /\ Loaded
    /\ orig.set
    /\ OrigValidUTF8
    /\ orig.c.Credentials = "cr"
    /\ orig.c.ZtAPI # <<>>
    /\ Len(orig.c.ConfigTypes.items) = MaxTypes
    /\ orig.c.ConfigTypes.items[1] # <<>>
    /\ loaded.ok


(***************************************************************************)
(* The Upsert of Add, step by step: the shard's write lock is taken, the   *)
(* callback runs (and closes), the map stores what the callback returned   *)
(* and the lock is released. A third goroutine reads the map with ForAll.  *)
(***************************************************************************)
Reader == 3

\* set.contexts.Upsert: shard.Lock().
Fine_Lock(t, ctx) ==
    /\ pc[t] = "idle"
    /\ CanLock(GetId(ctx))
    /\ wlock' = [wlock EXCEPT ![ShardOf(GetId(ctx))] = t]
    /\ pc' = [pc EXCEPT ![t] = "upsert_cb"]
    /\ arg' = [arg EXCEPT ![t] = ctx]
    /\ ret' = [ret EXCEPT ![t] = Unset]
    /\ UNCHANGED <<contexts, closed, setConfigTypes, cfgTypes, rlock, iter,
                   envVars, cfgVars>>

\* The callback runs: valueInMap.Close() when a distinct Context is stored.
Fine_Callback(t) ==
    /\ pc[t] = "upsert_cb"
    /\ CanClose(UpsertCloses(contexts, arg[t]))
    /\ closed' = Close(closed, UpsertCloses(contexts, arg[t]))
    /\ pc' = [pc EXCEPT ![t] = "upsert_store"]
    /\ UNCHANGED <<contexts, setConfigTypes, cfgTypes, arg, ret, lockVars,
                   envVars, cfgVars>>

\* The map stores what the callback returned; shard.Unlock().
Fine_Store(t) ==
    /\ pc[t] = "upsert_store"
    /\ contexts' = Upsert(contexts, arg[t])
    /\ wlock' = [wlock EXCEPT ![ShardOf(GetId(arg[t]))] = Nil]
    /\ pc' = [pc EXCEPT ![t] = "add_set"]
    /\ UNCHANGED <<closed, setConfigTypes, cfgTypes, arg, ret, rlock, iter,
                   envVars, cfgVars>>

FineNext ==
    \/ \E t \in Workers :
          \/ \E ctx \in IterHandles : Fine_Lock(t, ctx) /\ UNCHANGED <<last, kept>>
          \/ Fine_Callback(t) /\ UNCHANGED <<last, kept>>
          \/ Fine_Store(t) /\ UNCHANGED <<last, kept>>
          \/ Add_Set(t) /\ UNCHANGED <<last, kept>>
    \/ ForAll_Begin(Reader, "none", Nil) /\ UNCHANGED <<last, kept>>
    \/ ForAll_RLock(Reader) /\ UNCHANGED <<last, kept>>
    \/ \E key \in Ids : ForAll_Visit(Reader, key, TRUE) /\ UNCHANGED <<last, kept>>
    \/ ForAll_RUnlock(Reader) /\ UNCHANGED <<last, kept>>

SpecFine == IterInit /\ [][FineNext]_vars

\* C17 as stated: Close is never invoked on a Context at a step that leaves
\* the map holding that Context under its identity.
C17_CloseAfterNewVisible ==
    [][\A h \in Handles :
          closed'[h] # closed[h] => contexts'[GetId(h)] # h]_vars

\* C17, amended: the Close on the displaced Context is invoked inside the
\* Upsert, before the map stores the new Context, by a goroutine that holds
\* the write lock of the identity's shard alone: from the Close until the
\* store no goroutine reads that shard, and the step that releases the lock
\* is the one that leaves the new Context under the identity.
C17_CloseUnderWriteLock ==
    /\ [](\A t \in Workers :
            pc[t] = "upsert_store" =>
                /\ wlock[ShardOf(GetId(arg[t]))] = t
                /\ rlock[ShardOf(GetId(arg[t]))] = {})
    /\ [][\A h \in Handles :
            closed'[h] # closed[h] =>
                \E t \in Workers :
                    /\ wlock[ShardOf(GetId(h))] = t
                    /\ wlock'[ShardOf(GetId(h))] = t
                    /\ contexts[GetId(h)] = h
                    /\ arg[t] # h
                    /\ GetId(arg[t]) = GetId(h)]_vars
    /\ [][\A t \in Workers :
            (pc[t] = "upsert_store" /\ pc'[t] # "upsert_store") =>
                /\ contexts'[GetId(arg[t])] = arg[t]
                /\ wlock'[ShardOf(GetId(arg[t]))] = Nil]_vars

\* A goroutine has invoked Close on the stored Context and not yet stored
\* its own, while the reader waits for the read lock of that shard.
C17_Witness ==
    \E t \in Workers :
        /\ pc[t] = "upsert_store"
        /\ contexts[GetId(arg[t])] \notin {Nil, arg[t]}
        /\ closed[contexts[GetId(arg[t])]] = 1
        /\ pc[Reader] = "forall"
        /\ iter[Reader].shard = ShardOf(GetId(arg[t]))


(***************************************************************************)
(* The goroutine Other creates Contexts with NewContextWithOpts while the  *)
(* goroutine Main calls Add, Remove, RemoveById and ForAll.                *)
(***************************************************************************)
CreateNext ==
    \/ \E cfg \in Cfgs : New_Call(Other, cfg) /\ UNCHANGED <<last, kept>>
    \/ \E r \in FactoryResults : New_FactoryErr(Other, r) /\ UNCHANGED <<last, kept>>
    \/ \E r \in FactoryResults : New_FactoryOk(Other, r) /\ UNCHANGED <<last, kept>>
    \/ New_Set(Other) /\ UNCHANGED <<last, kept>>
    \/ \E ctx \in IterHandles : Add_Upsert(Main, ctx) /\ UNCHANGED <<last, kept>>
    \/ Add_Set(Main) /\ UNCHANGED <<last, kept>>
    \/ \E ctx \in IterHandles : Remove(Main, ctx) /\ UNCHANGED <<last, kept>>
    \/ \E id \in Ids : RemoveById(Main, id) /\ UNCHANGED <<last, kept>>
    \/ ForAll_Begin(Main, "none", Nil) /\ UNCHANGED <<last, kept>>
    \/ ForAll_RLock(Main) /\ UNCHANGED <<last, kept>>
    \/ \E key \in Ids : ForAll_Visit(Main, key, TRUE) /\ UNCHANGED <<last, kept>>
    \/ ForAll_RUnlock(Main) /\ UNCHANGED <<last, kept>>

SpecCreate == IterInit /\ [][CreateNext]_vars

\* Every step the goroutine Main is at can be taken: no lock makes it wait.
MainCanRun ==
    /\ pc[Main] = "idle" =>
          /\ \A ctx \in IterHandles :
                CanClose(UpsertCloses(contexts, ctx)) => ENABLED Add_Upsert(Main, ctx)
          /\ \A ctx \in IterHandles : ENABLED Remove(Main, ctx)
          /\ \A id \in Ids : ENABLED RemoveById(Main, id)
          /\ ENABLED ForAll_Begin(Main, "none", Nil)
    /\ pc[Main] = "add_set" => ENABLED Add_Set(Main)
    /\ pc[Main] = "forall" => ENABLED ForAll_RLock(Main)
    /\ pc[Main] = "visiting" =>
          \/ \E key \in Ids : ENABLED ForAll_Visit(Main, key, TRUE)
          \/ ENABLED ForAll_RUnlock(Main)

\* C18: while a goroutine is inside the factory call of NewContextWithOpts
\* it holds no lock of the map, and every step of Add, Remove, RemoveById
\* and ForAll of the other goroutine, on either identity, can be taken; the
\* creating goroutine leaves the map as it is when it calls the factory and
\* when the factory returns an error, and changes it only with the Context
\* the factory returned.
C18_FactoryHoldsNoLock ==
    /\ [](pc[Other] = "factory" =>
            /\ \A s \in Shards : wlock[s] # Other /\ Other \notin rlock[s]
            /\ MainCanRun)
    /\ [][(pc[Other] = "idle" /\ pc'[Other] = "factory") =>
              contexts' = contexts]_vars
    /\ [][(pc[Other] = "factory" /\ pc'[Other] = "idle") =>
              /\ contexts' = contexts
              /\ ret'[Other].err # NoErr]_vars
    /\ [][(pc[Other] = "factory" /\ pc'[Other] = "new_set") =>
              /\ arg'[Other] \in Handles
              /\ \A id \in Ids :
                    contexts'[id] = IF id = GetId(arg'[Other])
                                    THEN arg'[Other] ELSE contexts[id]]_vars

\* A goroutine is inside the factory call while the other is inside ForAll,
\* visiting a shard that holds a Context.
C18_Witness ==
    /\ pc[Other] = "factory"
    /\ pc[Main] = "visiting"
    /\ iter[Main].todo # {}


\* C19 (as claimed): in every state the goroutines calling the collection
\* can reach, no Context held by the map has had Close called on it.
C19_NoClosedHandleIndexed ==
    \A id \in Ids : contexts[id] # Nil => closed[contexts[id]] = 0

\* C20: when Remove(ctx) returns, the map is the map of the call with the
\* entry of ctx.GetId() removed, which is what RemoveById(ctx.GetId()) makes
\* of it, whether that entry held ctx, another Context or nothing, and
\* Close has been called on nothing.
C20_RemoveIsRemoveById ==
    (SeqReturned /\ last.op = "Remove") =>
        /\ contexts = RemoveKey(last.contexts, GetId(last.arg))
        /\ closed = last.closed

\* Remove(ctx) has returned, called when a distinct Context h1 of the
\* identity of ctx was stored: h1 is gone, and neither is closed.
C20_Witness ==
    /\ SeqReturned
    /\ last.op = "Remove"
    /\ last.contexts[GetId(last.arg)] \notin {Nil, last.arg}
    /\ contexts[GetId(last.arg)] = Nil
    /\ closed[last.contexts[GetId(last.arg)]] = 0
    /\ closed[last.arg] = 0

====
